---- MODULE Spec2Model ----
(***************************************************************************)
(* A model of rust-mavlink's streaming MAVLink v2 frame decoder            *)
(* (mavlink-core/src/tokio_codec.rs) and of its TCP connection             *)
(* (src/connection/tcp.rs).                                                *)
(*                                                                         *)
(* Bytes are the integers 0..255.  A Rust slice or array a[0..n] is the    *)
(* sequence <<a[0], ..., a[n-1]>>, so the Rust index i is the TLA+ index   *)
(* i + 1.                                                                  *)
(***************************************************************************)
EXTENDS Integers, Sequences, FiniteSets, TLC

(***************************************************************************)
(* Constants of the crate root (mavlink-core/src/lib.rs).                  *)
(***************************************************************************)
\* The v2 frame-start marker, 0xFD.
MAV_STX_V2 == 253

\* The "signed frame" incompatibility bit.
MAVLINK_IFLAG_SIGNED == 1

\* The incompatibility bits this decoder understands.
MAVLINK_SUPPORTED_IFLAGS == 1

\* MAVLinkV2MessageRaw::HEADER_SIZE: the header bytes that follow the marker.
HEADER_SIZE == 9

\* MAVLinkV2MessageRaw::SIGNATURE_SIZE.
SIGNATURE_SIZE == 13

\* The largest value of the one-byte payload length.
MAX_PAYLOAD == 255

\* The size of MAVLinkV2MessageRaw's storage: 1 + 9 + 255 + 2 + 13 = 280.
RAW_SIZE == 1 + HEADER_SIZE + MAX_PAYLOAD + 2 + SIGNATURE_SIZE

\* MockMessage::extra_crc: the seed byte of every message id.
EXTRA_CRC == 152

(***************************************************************************)
(* Bit operations on naturals.                                             *)
(***************************************************************************)
RECURSIVE BitXor(_, _)
BitXor(a, b) ==
    IF a = 0 THEN b
    ELSE IF b = 0 THEN a
    ELSE ((a + b) % 2) + 2 * BitXor(a \div 2, b \div 2)

RECURSIVE BitAnd(_, _)
BitAnd(a, b) ==
    IF a = 0 \/ b = 0 THEN 0
    ELSE ((a % 2) * (b % 2)) + 2 * BitAnd(a \div 2, b \div 2)

\* !x on a u8.
BitNot8(x) == 255 - x

(***************************************************************************)
(* The checksum: CRC-16/MCRF4XX over the data, then over the seed byte.    *)
(***************************************************************************)
crc_accumulate(acc, b) ==
    LET t1 == BitXor(acc, b) % 256
        t2 == BitXor(t1, (t1 * 16) % 65536) % 256
    IN  BitXor(BitXor(BitXor(acc \div 256, (t2 * 256) % 65536),
                      (t2 * 8) % 65536),
               t2 \div 16)

\* The accumulator, a u16, folded over data[lo..hi] in order, the first
\* half before the second (so that the depth of the evaluation is the
\* logarithm of the length).
RECURSIVE crc_range(_, _, _, _)
crc_range(acc, data, lo, hi) ==
    CASE lo > hi -> acc
      [] lo = hi -> crc_accumulate(acc, data[lo])
      [] OTHER ->
            LET mid == (lo + hi) \div 2
                left == crc_range(acc, data, lo, mid)
            IN  CASE left \in 0..65535 -> crc_range(left, data, mid + 1, hi)

\* The accumulator, a u16, folded over data[i..].
crc_fold(acc, data, i) == crc_range(acc, data, i, Len(data))

\* From all ones, over the data and then the seed byte.
calculate_crc(data, extra) == crc_accumulate(crc_fold(65535, data, 1), extra)

(***************************************************************************)
(* MAVLinkV2MessageRaw: a fixed array of RAW_SIZE bytes and its accessors. *)
(***************************************************************************)
\* MAVLinkV2MessageRaw::new(): all zeros.
NewRaw == [i \in 1..RAW_SIZE |-> 0]

payload_length(m) == m[2]

incompatibility_flags(m) == m[3]

\* Little-endian, three bytes.
message_id(m) == m[8] + 256 * m[9] + 65536 * m[10]

signature_lenght(m) ==
    IF BitAnd(incompatibility_flags(m), MAVLINK_IFLAG_SIGNED) = 0
    THEN 0 ELSE SIGNATURE_SIZE

\* Little-endian, the two bytes after the payload.
checksum(m) ==
    m[1 + HEADER_SIZE + payload_length(m) + 1]
    + 256 * m[1 + HEADER_SIZE + payload_length(m) + 2]

extra_crc(id) == EXTRA_CRC

has_valid_crc(m) ==
    checksum(m) = calculate_crc(SubSeq(m, 2, 1 + HEADER_SIZE + payload_length(m)),
                                extra_crc(message_id(m)))

\* The number of bytes of the frame held in m: marker, header, payload,
\* checksum and signature.
FrameLen(m) == 1 + HEADER_SIZE + payload_length(m) + 2 + signature_lenght(m)

\* dst with dst[at .. at + Len(bytes) - 1] (Rust indices) overwritten.
CopyInto(dst, at, bytes) ==
    [i \in 1..Len(dst) |->
        IF i > at /\ i <= at + Len(bytes) THEN bytes[i - at] ELSE dst[i]]

(***************************************************************************)
(* The byte streams the decoder is driven with.                            *)
(***************************************************************************)
\* How many valid frames a stream holds after its prefix, at most.
MaxFrames == 2

\* A valid frame as a sender writes it: marker, header, payload, checksum
\* over header-without-marker and payload, then the signature when signed.
\* System id 50, component id 76 and message id 0 as in the tests' frame.
MkFrame(flags, seq, payload, sig) ==
    LET hdr == <<Len(payload), flags, 0, seq, 50, 76, 0, 0, 0>>
        crc == calculate_crc(hdr \o payload, EXTRA_CRC)
    IN  <<MAV_STX_V2>> \o hdr \o payload \o <<crc % 256, crc \div 256>> \o sig

\* An unsigned frame with no payload (12 bytes), no byte of which after the
\* first has the marker's value.
FramePlain == MkFrame(0, 1, <<>>, <<>>)

\* A signed frame: link id 1, a timestamp and a truncated MAC (25 bytes).
FrameSigned == MkFrame(MAVLINK_IFLAG_SIGNED, 1, <<>>,
                       <<1, 2, 3, 4, 5, 6, 7, 8, 9, 10, 11, 12, 13>>)

\* The frame with sequence number 0 and no payload: the high byte of its
\* checksum, its last byte, has the marker's value.
FrameEndsInMarker == MkFrame(0, 0, <<>>, <<>>)

\* A frame whose payload is itself a complete valid frame (a tunnelled or
\* logged MAVLink frame).
FrameNested == MkFrame(0, 3, FramePlain, <<>>)

FrameSet == {FramePlain, FrameSigned, FrameEndsInMarker, FrameNested}

\* The sequences of at most n frames.
FrameSeqs(n) == UNION {[1..k -> FrameSet] : k \in 0..n}

RECURSIVE Flatten(_)
Flatten(fs) == IF fs = <<>> THEN <<>> ELSE Head(fs) \o Flatten(Tail(fs))

\* The bytes that follow a stray marker: they announce, read as a header,
\* a payload of 0, 10 or 255 bytes, or an unsupported flag (2).
StrayJunk == {<<>>, <<0, 0>>, <<10, 0>>, <<255, 0>>, <<0, 2>>}

\* The frames whose tails start a stream that begins mid-frame.
TailFrames == {FramePlain, FrameEndsInMarker}

\* kind "clear": frames only.  kind "tail": the tail of a valid frame cut at
\* a nonzero offset, then frames.  kind "stray": a stray marker and junk,
\* then one frame.
Scenarios ==
    {[kind |-> "clear", prefix |-> <<>>, frames |-> fs] : fs \in FrameSeqs(MaxFrames)}
    \cup UNION {{[kind |-> "tail", prefix |-> SubSeq(f, o + 1, Len(f)), frames |-> <<g>>] :
                    o \in 1..(Len(f) - 1), g \in FrameSet} : f \in TailFrames}
    \cup {[kind |-> "stray", prefix |-> <<MAV_STX_V2>> \o j, frames |-> <<g>>] :
            j \in StrayJunk, g \in FrameSet}

\* The frame as MAVLinkV2MessageRaw storage: its bytes, then zeros.
Pad(f) == CopyInto(NewRaw, 0, f)

(***************************************************************************)
(* State.                                                                  *)
(***************************************************************************)
VARIABLES
    state,        \* MAVLinkV2Codec.state
    message,      \* MAVLinkV2Codec.message.0
    src,          \* the caller's BytesMut
    pc,           \* "idle": between calls; "loop": inside decode's loop
    ret,          \* the latest decode call's result: "None", "Some" (the
                  \* frame is message, which decode returns by copy), or
                  \* "NoCall" before the first call
    kind,         \* the stream's scenario
    prefix,       \* the stream's bytes before its valid frames
    frames,       \* the stream's valid frames
    fed,          \* how many stream bytes have been appended to src
    fresh,        \* no byte was appended since the latest decode call
                  \* started
    again,        \* the latest decode call was made on a decoder that had
                  \* returned a frame and had not been reset since
    nret,         \* how many frames decode returned under the protocol
    disciplined,  \* the caller followed the protocol so far: reset after
                  \* each returned frame, and only then
    quiet         \* how many decode calls in a row (2 stands for more)
                  \* returned no-frame with no append and no reset between
                  \* them; inside a call, those before it

codecVars == <<state, message, src, pc, ret>>
callerVars == <<kind, prefix, frames, fed, fresh, again, nret, disciplined>>

Stream == prefix \o Flatten(frames)

VARIABLES
    conn,       \* the TcpConnection: address, writer.sequence,
                \* protocol_version, and its transport (role, target, up)
    origin,     \* the role and target the caller created the connection with
    lastcall,   \* the latest call on the connection
    result,     \* its outcome: "Ok", "Err" or "Panic"
    stamped,    \* the sequence number in the header the latest send wrote
    nsent,      \* the send calls made on this connection object
    before,     \* conn.sequence before the latest call
    writes,     \* the writes to the transport made for this connection
                \* object's send calls
    got,        \* what the latest get_protocol_version returned
    lastset     \* the version last given to set_protocol_version since the
                \* connection object was built, "V2" if none

connVars == <<conn, origin, lastcall, result, stamped, nsent, before, writes, got, lastset>>

\* How many threads share the connection.
NThreads == 2

Threads == 1..NThreads

\* No thread: the value of a lock that is free.
NoThread == 0

VARIABLES
    tpc,        \* where each thread is: "idle", or a position inside send or
                \* inside recv
    wlock,      \* the thread that holds the lock of self.writer, or NoThread
    rlock,      \* the thread that holds the lock of self.reader, or NoThread
    hdr,        \* each thread's local header.sequence
    wire,       \* the pieces written to the socket, in order: the sequence
                \* number of the frame and which piece of it (1 or 2)
    stamps,     \* the sequence numbers stamped by the threads, in order
    ncalls,     \* how many calls the threads have made
    during,     \* for each thread inside send: the thread that was blocked
                \* in recv, holding the reader lock, when the send was called
                \* and has been ever since, or NoThread
    overlap     \* some send call was made and returned Ok while another
                \* thread stayed blocked in recv holding the reader lock

threadVars == <<tpc, wlock, rlock, hdr, wire, stamps, ncalls, during, overlap>>

\* What the single caller of the connection observes.
callVars == <<origin, lastcall, result, stamped, nsent, before, writes, got, lastset>>

\* The decoder's and its caller's variables.
decoderVars == <<state, message, src, pc, ret, kind, prefix, frames, fed, fresh, again,
                 nret, disciplined, quiet>>

vars == <<state, message, src, pc, ret, kind, prefix, frames, fed, fresh, again, nret,
          disciplined, quiet, conn, origin, lastcall, result, stamped, nsent, before,
          writes, got, lastset, tpc, wlock, rlock, hdr, wire, stamps, ncalls, during,
          overlap>>

(***************************************************************************)
(* MAVLinkV2Codec.                                                         *)
(***************************************************************************)
\* No connection object.
NoConn ==
    [address |-> <<>>, role |-> "none", target |-> <<>>, sequence |-> 0,
     protocol_version |-> "V2", up |-> FALSE]

NoOrigin == [role |-> "none", target |-> <<>>]

\* MAVLinkV2Codec::new(), an empty buffer, and a stream to feed.
InitCodec ==
    /\ state = "SearchForMagicByte"
    /\ message = NewRaw
    /\ src = <<>>
    /\ pc = "idle"
    /\ ret = "NoCall"
    /\ \E sc \in Scenarios :
        /\ kind = sc.kind
        /\ prefix = sc.prefix
        /\ frames = sc.frames
    /\ fed = 0
    /\ fresh = FALSE
    /\ again = FALSE
    /\ nret = 0
    /\ disciplined = TRUE
    /\ quiet = 0
    /\ conn = NoConn
    /\ origin = NoOrigin
    /\ lastcall = "none"
    /\ result = "Ok"
    /\ stamped = 0
    /\ nsent = 0
    /\ before = 0
    /\ writes = 0
    /\ got = "V2"
    /\ lastset = "V2"
    /\ tpc = [t \in Threads |-> "idle"]
    /\ wlock = NoThread
    /\ rlock = NoThread
    /\ hdr = [t \in Threads |-> 0]
    /\ wire = <<>>
    /\ stamps = <<>>
    /\ ncalls = 0
    /\ during = [t \in Threads |-> NoThread]
    /\ overlap = FALSE

\* The caller appends the next bytes of the stream to the buffer
\* (BytesMut::put_u8, put_slice): one byte, or all that is left.  A chunk of
\* k bytes leaves the state that k appends of one byte leave.
put_slice ==
    /\ pc = "idle"
    /\ UNCHANGED <<connVars, threadVars>>
    /\ \E k \in {1, Len(Stream) - fed} :
        /\ k >= 1
        /\ fed + k <= Len(Stream)
        /\ src' = src \o SubSeq(Stream, fed + 1, fed + k)
        /\ fed' = fed + k
    /\ fresh' = FALSE
    /\ quiet' = 0
    /\ UNCHANGED <<state, message, pc, ret, kind, prefix, frames, again, nret, disciplined>>

\* The caller calls decode(&mut src).
DecodeCall ==
    /\ pc = "idle"
    /\ UNCHANGED <<connVars, threadVars>>
    /\ pc' = "loop"
    /\ fresh' = TRUE
    /\ again' = (state = "CheckCRC")
    /\ disciplined' = (disciplined /\ state # "CheckCRC")
    /\ UNCHANGED <<state, message, src, ret, kind, prefix, frames, fed, nret, quiet>>

\* The count of no-frame results in a row, once the pass of the loop has
\* set pc and ret: one more after a no-frame result, none after a frame,
\* unchanged while the call goes on.
Tally ==
    quiet' = IF pc' = "loop" THEN quiet
             ELSE IF ret' = "Some" THEN 0
             ELSE IF quiet < 2 THEN quiet + 1 ELSE 2

\* return Ok(None)
ReturnNone ==
    /\ pc' = "idle"
    /\ ret' = "None"
    /\ UNCHANGED <<state, message, src>>

\* One pass of the inner loop of the SearchForMagicByte arm, and the arm's
\* end when the marker is found.  (reserve changes capacity only.)
SearchForMagicByte ==
    /\ pc = "loop"
    /\ UNCHANGED <<connVars, threadVars>>
    /\ state = "SearchForMagicByte"
    /\ IF src = <<>>
       THEN ReturnNone
       ELSE /\ src' = Tail(src)
            /\ IF Head(src) = MAV_STX_V2
               THEN /\ message' = [message EXCEPT ![1] = MAV_STX_V2]
                    /\ state' = "ParseHeader"
               ELSE UNCHANGED <<state, message>>
            /\ UNCHANGED <<pc, ret>>
    /\ UNCHANGED callerVars
    /\ Tally

\* ParseHeader with the rejection's reset() left out: the loop continues
\* in the same state.
ParseHeader_NoReset ==
    /\ pc = "loop"
    /\ UNCHANGED <<connVars, threadVars>>
    /\ state = "ParseHeader"
    /\ IF Len(src) >= HEADER_SIZE
       THEN LET m == CopyInto(message, 1, SubSeq(src, 1, HEADER_SIZE))
            IN  /\ IF BitAnd(incompatibility_flags(m),
                             BitNot8(MAVLINK_SUPPORTED_IFLAGS)) > 0
                   THEN /\ state' = state
                        /\ message' = m
                   ELSE /\ state' = "ParsePayload"
                        /\ message' = m
                /\ UNCHANGED <<src, pc, ret>>
       ELSE ReturnNone
    /\ UNCHANGED callerVars
    /\ Tally

\* ParseHeader that gives the candidate up when the header is not complete
\* yet: back to the search, and no-frame.
ParseHeader_DropOnWait ==
    /\ pc = "loop"
    /\ UNCHANGED <<connVars, threadVars>>
    /\ state = "ParseHeader"
    /\ IF Len(src) >= HEADER_SIZE
       THEN LET m == CopyInto(message, 1, SubSeq(src, 1, HEADER_SIZE))
            IN  /\ IF BitAnd(incompatibility_flags(m),
                             BitNot8(MAVLINK_SUPPORTED_IFLAGS)) > 0
                   THEN /\ state' = "SearchForMagicByte"
                        /\ message' = NewRaw
                   ELSE /\ state' = "ParsePayload"
                        /\ message' = m
                /\ UNCHANGED <<src, pc, ret>>
       ELSE /\ pc' = "idle"
            /\ ret' = "None"
            /\ state' = "SearchForMagicByte"
            /\ message' = NewRaw
            /\ src' = src
    /\ UNCHANGED callerVars
    /\ Tally

\* The ParseHeader arm.
ParseHeader ==
    /\ pc = "loop"
    /\ UNCHANGED <<connVars, threadVars>>
    /\ state = "ParseHeader"
    /\ IF Len(src) >= HEADER_SIZE
       THEN LET m == CopyInto(message, 1, SubSeq(src, 1, HEADER_SIZE))
            IN  /\ IF BitAnd(incompatibility_flags(m),
                             BitNot8(MAVLINK_SUPPORTED_IFLAGS)) > 0
                   THEN /\ state' = "SearchForMagicByte"
                        /\ message' = NewRaw
                   ELSE /\ state' = "ParsePayload"
                        /\ message' = m
                /\ UNCHANGED <<src, pc, ret>>
       ELSE ReturnNone
    /\ UNCHANGED callerVars
    /\ Tally

\* ParsePayload with the copy taken from the buffer's start, the offset
\* left out.
ParsePayload_NoOffset ==
    /\ pc = "loop"
    /\ UNCHANGED <<connVars, threadVars>>
    /\ state = "ParsePayload"
    /\ LET full_payload_and_checksum_and_sign_len ==
               payload_length(message) + 2 + signature_lenght(message)
           offset == HEADER_SIZE
       IN  IF Len(src) >= full_payload_and_checksum_and_sign_len + offset
           THEN /\ message' = CopyInto(message, 1 + HEADER_SIZE,
                        SubSeq(src, 1, full_payload_and_checksum_and_sign_len))
                /\ state' = "CheckCRC"
                /\ UNCHANGED <<src, pc, ret>>
           ELSE ReturnNone
    /\ UNCHANGED callerVars
    /\ Tally

\* ParsePayload that leaves the signature out of the length it waits for
\* and copies.
ParsePayload_NoSignature ==
    /\ pc = "loop"
    /\ UNCHANGED <<connVars, threadVars>>
    /\ state = "ParsePayload"
    /\ LET full_payload_and_checksum_len == payload_length(message) + 2
           offset == HEADER_SIZE
       IN  IF Len(src) >= full_payload_and_checksum_len + offset
           THEN /\ message' = CopyInto(message, 1 + HEADER_SIZE,
                        SubSeq(src, offset + 1, full_payload_and_checksum_len + offset))
                /\ state' = "CheckCRC"
                /\ UNCHANGED <<src, pc, ret>>
           ELSE ReturnNone
    /\ UNCHANGED callerVars
    /\ Tally

\* ParsePayload that, while it waits, takes the header it has already
\* copied out of the buffer.
ParsePayload_ConsumeOnWait ==
    /\ pc = "loop"
    /\ UNCHANGED <<connVars, threadVars>>
    /\ state = "ParsePayload"
    /\ LET full_payload_and_checksum_and_sign_len ==
               payload_length(message) + 2 + signature_lenght(message)
           offset == HEADER_SIZE
       IN  IF Len(src) >= full_payload_and_checksum_and_sign_len + offset
           THEN /\ message' = CopyInto(message, 1 + HEADER_SIZE,
                        SubSeq(src, offset + 1,
                               full_payload_and_checksum_and_sign_len + offset))
                /\ state' = "CheckCRC"
                /\ UNCHANGED <<src, pc, ret>>
           ELSE /\ pc' = "idle"
                /\ ret' = "None"
                /\ src' = SubSeq(src, offset + 1, Len(src))
                /\ UNCHANGED <<state, message>>
    /\ UNCHANGED callerVars
    /\ Tally

\* ParsePayload that waits until the buffer could hold a frame of the
\* largest size, whatever length the header announces.
ParsePayload_WaitForLargest ==
    /\ pc = "loop"
    /\ UNCHANGED <<connVars, threadVars>>
    /\ state = "ParsePayload"
    /\ LET full_payload_and_checksum_and_sign_len ==
               payload_length(message) + 2 + signature_lenght(message)
           offset == HEADER_SIZE
       IN  IF Len(src) >= RAW_SIZE + offset
           THEN /\ message' = CopyInto(message, 1 + HEADER_SIZE,
                        SubSeq(src, offset + 1,
                               full_payload_and_checksum_and_sign_len + offset))
                /\ state' = "CheckCRC"
                /\ UNCHANGED <<src, pc, ret>>
           ELSE ReturnNone
    /\ UNCHANGED callerVars
    /\ Tally

\* The ParsePayload arm.
ParsePayload ==
    /\ pc = "loop"
    /\ UNCHANGED <<connVars, threadVars>>
    /\ state = "ParsePayload"
    /\ LET full_payload_and_checksum_and_sign_len ==
               payload_length(message) + 2 + signature_lenght(message)
           offset == HEADER_SIZE
       IN  IF Len(src) >= full_payload_and_checksum_and_sign_len + offset
           THEN /\ message' = CopyInto(message, 1 + HEADER_SIZE,
                        SubSeq(src, offset + 1,
                               full_payload_and_checksum_and_sign_len + offset))
                /\ state' = "CheckCRC"
                /\ UNCHANGED <<src, pc, ret>>
           ELSE ReturnNone
    /\ UNCHANGED callerVars
    /\ Tally

\* CheckCRC without the check: whatever was copied is returned.
CheckCRC_Unchecked ==
    /\ pc = "loop"
    /\ UNCHANGED <<connVars, threadVars>>
    /\ state = "CheckCRC"
    /\ pc' = "idle"
    /\ ret' = "Some"
    /\ nret' = IF disciplined THEN nret + 1 ELSE nret
    /\ UNCHANGED <<state, message, src>>
    /\ UNCHANGED <<kind, prefix, frames, fed, fresh, again, disciplined>>
    /\ Tally

\* CheckCRC with the advance that the code has commented out: the success
\* path consumes the header and the payload.
CheckCRC_Advance ==
    /\ pc = "loop"
    /\ UNCHANGED <<connVars, threadVars>>
    /\ state = "CheckCRC"
    /\ IF ~has_valid_crc(message)
       THEN /\ state' = "SearchForMagicByte"
            /\ message' = NewRaw
            /\ UNCHANGED <<src, pc, ret, nret>>
       ELSE /\ src' = SubSeq(src, HEADER_SIZE + payload_length(message) + 1, Len(src))
            /\ pc' = "idle"
            /\ ret' = "Some"
            /\ nret' = IF disciplined THEN nret + 1 ELSE nret
            /\ UNCHANGED <<state, message>>
    /\ UNCHANGED <<kind, prefix, frames, fed, fresh, again, disciplined>>
    /\ Tally

\* CheckCRC that, on a mismatch, skips the rejected candidate's bytes
\* instead of leaving them to the search.
CheckCRC_SkipCandidate ==
    /\ pc = "loop"
    /\ UNCHANGED <<connVars, threadVars>>
    /\ state = "CheckCRC"
    /\ IF ~has_valid_crc(message)
       THEN /\ state' = "SearchForMagicByte"
            /\ message' = NewRaw
            /\ src' = SubSeq(src, FrameLen(message), Len(src))
            /\ UNCHANGED <<pc, ret, nret>>
       ELSE /\ pc' = "idle"
            /\ ret' = "Some"
            /\ nret' = IF disciplined THEN nret + 1 ELSE nret
            /\ UNCHANGED <<state, message, src>>
    /\ UNCHANGED <<kind, prefix, frames, fed, fresh, again, disciplined>>
    /\ Tally

\* CheckCRC whose rejection goes back to the search without reset()'s new
\* frame storage: the rejected candidate's bytes stay in it.
CheckCRC_KeepStorage ==
    /\ pc = "loop"
    /\ UNCHANGED <<connVars, threadVars>>
    /\ state = "CheckCRC"
    /\ IF ~has_valid_crc(message)
       THEN /\ state' = "SearchForMagicByte"
            /\ UNCHANGED <<message, src, pc, ret, nret>>
       ELSE /\ pc' = "idle"
            /\ ret' = "Some"
            /\ nret' = IF disciplined THEN nret + 1 ELSE nret
            /\ UNCHANGED <<state, message, src>>
    /\ UNCHANGED <<kind, prefix, frames, fed, fresh, again, disciplined>>
    /\ Tally

\* The CheckCRC arm.
CheckCRC ==
    /\ pc = "loop"
    /\ UNCHANGED <<connVars, threadVars>>
    /\ state = "CheckCRC"
    /\ IF ~has_valid_crc(message)
       THEN /\ state' = "SearchForMagicByte"
            /\ message' = NewRaw
            /\ UNCHANGED <<src, pc, ret, nret>>
       ELSE /\ pc' = "idle"
            /\ ret' = "Some"
            /\ nret' = IF disciplined THEN nret + 1 ELSE nret
            /\ UNCHANGED <<state, message, src>>
    /\ UNCHANGED <<kind, prefix, frames, fed, fresh, again, disciplined>>
    /\ Tally

\* The caller calls reset().
Reset ==
    /\ pc = "idle"
    /\ UNCHANGED <<connVars, threadVars>>
    /\ state' = "SearchForMagicByte"
    /\ message' = NewRaw
    /\ disciplined' = (disciplined /\ state = "CheckCRC")
    /\ quiet' = 0
    /\ UNCHANGED <<src, pc, ret, kind, prefix, frames, fed, fresh, again, nret>>

(***************************************************************************)
(* TcpConnection (src/connection/tcp.rs).  A String is the sequence of its *)
(* characters.                                                             *)
(***************************************************************************)
\* How many send calls one connection object is followed through, at most:
\* more than one cycle of 256.
MaxSends == 258

\* "tcpout:" and "tcpin:".
TCPOUT == <<"t", "c", "p", "o", "u", "t", ":">>
TCPIN == <<"t", "c", "p", "i", "n", ":">>

\* str::starts_with
starts_with(s, p) == Len(s) >= Len(p) /\ SubSeq(s, 1, Len(p)) = p

\* &s[n..], for n <= Len(s); past the end the slicing panics.
SliceFrom(s, n) == SubSeq(s, n + 1, Len(s))

\* "h:1", "10.0.0.1:9" and "abcdefh:1": a short host name, a numeric address
\* and a host name whose tail from its seventh character is a host name too.
AddrShort == <<"h", ":", "1">>
AddrNumeric == <<"1", "0", ".", "0", ".", "0", ".", "1", ":", "9">>
AddrLong == <<"a", "b", "c", "d", "e", "f", "h", ":", "1">>

\* The strings that to_socket_addrs resolves to a socket address.
Resolvable == {AddrShort, AddrNumeric, AddrLong}

\* The strings a caller passes to tcpout and tcpin, and to select_protocol:
\* the addresses, alone and behind a protocol prefix ("udpin:" is none).
DirectAddresses == Resolvable \cup {TCPOUT \o AddrShort}
ProtocolAddresses ==
    {TCPOUT \o a : a \in Resolvable} \cup {TCPIN \o a : a \in Resolvable}
    \cup {<<"u", "d", "p", "i", "n", ":">> \o AddrShort}

Failed(tag) == [tag |-> tag, conn |-> NoConn]

\* tcpout(address): resolve (a failure panics in unwrap), connect (ok says
\* whether connect, set_read_timeout and try_clone succeed), and build the
\* connection.  role and target are the transport's: a stream connected to
\* target.
tcpout(address, ok) ==
    IF address \notin Resolvable THEN Failed("Panic")
    ELSE IF ~ok THEN Failed("Err")
    ELSE [tag |-> "Ok",
          conn |-> [address |-> address, role |-> "out", target |-> address,
                    sequence |-> 0, protocol_version |-> "V2", up |-> TRUE]]

\* tcpin(address): resolve, bind (ok says whether bind and try_clone
\* succeed) and take the first incoming stream: a listener on target.
tcpin(address, ok) ==
    IF address \notin Resolvable THEN Failed("Panic")
    ELSE IF ~ok THEN Failed("Err")
    ELSE [tag |-> "Ok",
          conn |-> [address |-> address, role |-> "in", target |-> address,
                    sequence |-> 0, protocol_version |-> "V2", up |-> TRUE]]

select_protocol(address, ok) ==
    IF starts_with(address, TCPOUT) THEN tcpout(SliceFrom(address, Len(TCPOUT)), ok)
    ELSE IF starts_with(address, TCPIN) THEN tcpin(SliceFrom(address, Len(TCPIN)), ok)
    ELSE Failed("Err")

\* The connection that reconnect builds from self.address.
reconnect(self, ok) ==
    IF starts_with(self.address, TCPOUT)
    THEN tcpout(SliceFrom(self.address, Len(TCPOUT)), ok)
    ELSE IF Len(self.address) < Len(TCPIN) THEN Failed("Panic")
    ELSE tcpin(SliceFrom(self.address, Len(TCPIN)), ok)

\* No connection object yet; a decoder that is not driven.
InitConn ==
    /\ conn = NoConn
    /\ origin = NoOrigin
    /\ lastcall = "none"
    /\ result = "Ok"
    /\ stamped = 0
    /\ nsent = 0
    /\ before = 0
    /\ writes = 0
    /\ got = "V2"
    /\ lastset = "V2"
    /\ tpc = [t \in Threads |-> "idle"]
    /\ wlock = NoThread
    /\ rlock = NoThread
    /\ hdr = [t \in Threads |-> 0]
    /\ wire = <<>>
    /\ stamps = <<>>
    /\ ncalls = 0
    /\ during = [t \in Threads |-> NoThread]
    /\ overlap = FALSE
    /\ state = "SearchForMagicByte"
    /\ message = NewRaw
    /\ src = <<>>
    /\ pc = "idle"
    /\ ret = "NoCall"
    /\ kind = "clear"
    /\ prefix = <<>>
    /\ frames = <<>>
    /\ fed = 0
    /\ fresh = FALSE
    /\ again = FALSE
    /\ nret = 0
    /\ disciplined = TRUE
    /\ quiet = 0

\* A call to a constructor: r is what it returned.
Created(name, r) ==
    /\ lastcall' = name
    /\ result' = r.tag
    /\ conn' = r.conn
    /\ origin' = [role |-> r.conn.role, target |-> r.conn.target]
    /\ lastset' = "V2"
    /\ UNCHANGED <<stamped, nsent, before, writes, got>>

NewTcpout ==
    /\ conn = NoConn /\ result # "Panic"
    /\ UNCHANGED <<decoderVars, threadVars>>
    /\ \E a \in DirectAddresses, ok \in BOOLEAN : Created("tcpout", tcpout(a, ok))

NewTcpin ==
    /\ conn = NoConn /\ result # "Panic"
    /\ UNCHANGED <<decoderVars, threadVars>>
    /\ \E a \in DirectAddresses, ok \in BOOLEAN : Created("tcpin", tcpin(a, ok))

NewSelectProtocol ==
    /\ conn = NoConn /\ result # "Panic"
    /\ UNCHANGED <<decoderVars, threadVars>>
    /\ \E a \in ProtocolAddresses, ok \in BOOLEAN :
            Created("select_protocol", select_protocol(a, ok))

\* A connection object exists and the thread has not panicked.
Live == conn # NoConn /\ result # "Panic"

\* recv: read_versioned_msg on the reader returns a message or an error.
Recv ==
    /\ Live
    /\ UNCHANGED <<decoderVars, threadVars>>
    /\ lastcall' = "recv"
    /\ \E r \in {"Ok", "Err"} : result' = r
    /\ before' = conn.sequence
    /\ UNCHANGED <<conn, origin, stamped, nsent, writes, got, lastset>>

\* send with the increment written sequence + 1: at 255 the addition
\* overflows and panics.
Send_PlainAdd ==
    /\ Live
    /\ UNCHANGED <<decoderVars, threadVars>>
    /\ nsent < MaxSends
    /\ lastcall' = "send"
    /\ IF conn.sequence = 255
       THEN /\ result' = "Panic"
            /\ UNCHANGED <<conn, stamped, nsent, writes>>
       ELSE /\ stamped' = conn.sequence
            /\ conn' = [conn EXCEPT !.sequence = conn.sequence + 1]
            /\ \E r \in {"Ok", "Err"} : (r = "Ok" => conn.up) /\ result' = r
            /\ nsent' = nsent + 1
            /\ writes' = writes + 1
    /\ before' = conn.sequence
    /\ UNCHANGED <<origin, got, lastset>>

\* send that advances the counter only when the write succeeded, so that a
\* failed send's number is stamped again by the next send.
Send_IncrementOnSuccess ==
    /\ Live
    /\ UNCHANGED <<decoderVars, threadVars>>
    /\ nsent < MaxSends
    /\ lastcall' = "send"
    /\ stamped' = conn.sequence
    /\ \E r \in {"Ok", "Err"} :
        /\ r = "Ok" => conn.up
        /\ result' = r
        /\ conn' = IF r = "Ok"
                   THEN [conn EXCEPT !.sequence = (conn.sequence + 1) % 256]
                   ELSE conn
    /\ nsent' = nsent + 1
    /\ writes' = writes + 1
    /\ before' = conn.sequence
    /\ UNCHANGED <<origin, got, lastset>>

\* send: stamp the counter, increment it (wrapping), write; the write fails
\* or not, and fails on a transport that was shut down.
Send ==
    /\ Live
    /\ UNCHANGED <<decoderVars, threadVars>>
    /\ nsent < MaxSends
    /\ lastcall' = "send"
    /\ stamped' = conn.sequence
    /\ conn' = [conn EXCEPT !.sequence = (conn.sequence + 1) % 256]
    /\ \E r \in {"Ok", "Err"} : (r = "Ok" => conn.up) /\ result' = r
    /\ nsent' = nsent + 1
    /\ writes' = writes + 1
    /\ before' = conn.sequence
    /\ UNCHANGED <<origin, got, lastset>>

SetProtocolVersion ==
    /\ Live
    /\ UNCHANGED <<decoderVars, threadVars>>
    /\ lastcall' = "set_protocol_version"
    /\ \E v \in {"V1", "V2"} :
        /\ conn' = [conn EXCEPT !.protocol_version = v]
        /\ lastset' = v
    /\ result' = "Ok"
    /\ before' = conn.sequence
    /\ UNCHANGED <<origin, stamped, nsent, writes, got>>

GetProtocolVersion ==
    /\ Live
    /\ UNCHANGED <<decoderVars, threadVars>>
    /\ lastcall' = "get_protocol_version"
    /\ result' = "Ok"
    /\ got' = conn.protocol_version
    /\ before' = conn.sequence
    /\ UNCHANGED <<conn, origin, stamped, nsent, writes, lastset>>

\* shutdown: both streams are shut down, or the first shutdown fails.
Shutdown ==
    /\ Live
    /\ UNCHANGED <<decoderVars, threadVars>>
    /\ lastcall' = "shutdown"
    /\ \E r \in {"Ok", "Err"} :
        /\ result' = r
        /\ conn' = IF r = "Ok" THEN [conn EXCEPT !.up = FALSE] ELSE conn
    /\ before' = conn.sequence
    /\ UNCHANGED <<origin, stamped, nsent, writes, got, lastset>>

\* reconnect that carries the sequence counter over to the new connection.
Reconnect_KeepSequence ==
    /\ Live
    /\ UNCHANGED <<decoderVars, threadVars>>
    /\ lastcall' = "reconnect"
    /\ \E ok \in BOOLEAN :
        LET r == reconnect(conn, ok)
        IN  /\ result' = r.tag
            /\ conn' = IF r.tag = "Ok"
                       THEN [r.conn EXCEPT !.sequence = conn.sequence]
                       ELSE conn
            /\ nsent' = IF r.tag = "Ok" THEN 0 ELSE nsent
            /\ writes' = IF r.tag = "Ok" THEN 0 ELSE writes
            /\ lastset' = IF r.tag = "Ok" THEN "V2" ELSE lastset
    /\ before' = conn.sequence
    /\ UNCHANGED <<origin, stamped, got>>

\* reconnect that carries the protocol version over to the new connection.
Reconnect_KeepVersion ==
    /\ Live
    /\ UNCHANGED <<decoderVars, threadVars>>
    /\ lastcall' = "reconnect"
    /\ \E ok \in BOOLEAN :
        LET r == reconnect(conn, ok)
        IN  /\ result' = r.tag
            /\ conn' = IF r.tag = "Ok"
                       THEN [r.conn EXCEPT !.protocol_version = conn.protocol_version]
                       ELSE conn
            /\ nsent' = IF r.tag = "Ok" THEN 0 ELSE nsent
            /\ writes' = IF r.tag = "Ok" THEN 0 ELSE writes
            /\ lastset' = IF r.tag = "Ok" THEN "V2" ELSE lastset
    /\ before' = conn.sequence
    /\ UNCHANGED <<origin, stamped, got>>

\* reconnect: *self is assigned only when the constructor returned Ok.
Reconnect ==
    /\ Live
    /\ UNCHANGED <<decoderVars, threadVars>>
    /\ lastcall' = "reconnect"
    /\ \E ok \in BOOLEAN :
        LET r == reconnect(conn, ok)
        IN  /\ result' = r.tag
            /\ conn' = IF r.tag = "Ok" THEN r.conn ELSE conn
            /\ nsent' = IF r.tag = "Ok" THEN 0 ELSE nsent
            /\ writes' = IF r.tag = "Ok" THEN 0 ELSE writes
            /\ lastset' = IF r.tag = "Ok" THEN "V2" ELSE lastset
    /\ before' = conn.sequence
    /\ UNCHANGED <<origin, stamped, got>>


\* The decoder driven with a stream; no connection.
NextCodec ==
    \/ put_slice
    \/ DecodeCall
    \/ SearchForMagicByte
    \/ ParseHeader
    \/ ParsePayload
    \/ CheckCRC
    \/ Reset

SpecCodec == InitCodec /\ [][NextCodec]_vars

\* The connection; the decoder is not driven.
NextConn ==
    \/ NewTcpout
    \/ NewTcpin
    \/ NewSelectProtocol
    \/ Recv
    \/ Send
    \/ SetProtocolVersion
    \/ GetProtocolVersion
    \/ Shutdown
    \/ Reconnect

SpecConn == InitConn /\ [][NextConn]_vars

(***************************************************************************)
(* Properties of the decoder.                                              *)
(***************************************************************************)
\* Between calls, with whatever the latest call returned.
Idle == pc = "idle"

\* The latest decode call returned a frame and reset was not called since:
\* the returned frame is message.
Returned == pc = "idle" /\ ret = "Some" /\ state = "CheckCRC"

\* The latest decode call has ended and saw every byte appended so far.
Settled == pc = "idle" /\ fresh

\* C1: a stream that starts with a valid frame F, fed in any chunks to a
\* fresh decoder: no decode call returns a frame while F's last byte is not
\* in the buffer, and the first call made once it is returns F, the whole
\* storage being F's bytes followed by zeros.
C1_FirstFrameAtItsLastByte ==
    (kind = "clear" /\ Len(frames) >= 1 /\ disciplined) =>
        /\ fed < Len(frames[1]) => (nret = 0 /\ (Settled => ret = "None"))
        /\ (Settled /\ fed >= Len(frames[1])) => nret >= 1
        /\ (Returned /\ nret = 1) => message = Pad(frames[1])

\* C1's case: decode has just returned F, fed one byte at a time or not,
\* with nothing but F in the stream so far.
C1_Witness ==
    /\ kind = "clear"
    /\ Len(frames) >= 1
    /\ disciplined
    /\ Returned
    /\ nret = 1
    /\ fed = Len(frames[1])
    /\ message = Pad(frames[1])

\* C2: N valid frames concatenated, decode and then reset after each
\* returned frame: the frames returned are the N frames in order, and once
\* decode returns no-frame on the whole stream, exactly N were returned.
C2_ExactlyTheFramesInOrder ==
    (kind = "clear" /\ disciplined) =>
        /\ nret <= Len(frames)
        /\ Returned => (nret >= 1 /\ message = Pad(frames[nret]))
        /\ (Settled /\ fed = Len(Stream) /\ ret = "None") => nret = Len(frames)

\* C3: a stream that starts with the tail of a valid frame and goes on with
\* complete valid frames, decode and reset after each returned frame: the
\* frames returned are the complete frames, in order, all of them.
C3_TailThenEveryFrame ==
    (kind = "tail" /\ disciplined) =>
        /\ nret <= Len(frames)
        /\ Returned => (nret >= 1 /\ message = Pad(frames[nret]))
        /\ (Settled /\ fed = Len(Stream) /\ ret = "None") => nret = Len(frames)

\* C4: a stray marker and junk before a real frame: once every byte of the
\* real frame is in the buffer, decode has returned the real frame.
C4_StrayMarkerThenFrame ==
    (kind = "stray" /\ disciplined) =>
        /\ (Settled /\ fed = Len(Stream)) => nret >= 1
        /\ (Returned /\ nret = 1) => message = Pad(frames[1])

\* C5: every frame decode returns, whatever the caller did before, starts
\* with the marker, has no incompatibility flag outside the supported set,
\* and stores the checksum of its header-without-marker, payload and seed.
C5_ReturnedFrameIsValid ==
    Returned =>
        /\ message[1] = MAV_STX_V2
        /\ BitAnd(message[3], BitNot8(MAVLINK_SUPPORTED_IFLAGS)) = 0
        /\ message[1 + HEADER_SIZE + message[2] + 1]
             + 256 * message[1 + HEADER_SIZE + message[2] + 2]
           = calculate_crc(SubSeq(message, 2, 1 + HEADER_SIZE + message[2]),
                           EXTRA_CRC)

\* C5's case: a frame returned after a candidate was rejected for its flags
\* (the stray marker followed by 0, 2).
C5_Witness ==
    /\ Returned
    /\ kind = "stray"
    /\ prefix = <<MAV_STX_V2, 0, 2>>
    /\ message = Pad(frames[1])

\* The states of the decoder, in the order the loop leaves them without
\* consuming a byte.
Rank ==
    CASE state = "ParseHeader" -> 3
      [] state = "ParsePayload" -> 2
      [] state = "CheckCRC" -> 1
      [] state = "SearchForMagicByte" -> 0

\* What every pass of decode's loop decreases.
Measure == 4 * Len(src) + Rank

\* C6: inside a decode call the decoder is in one of the four states, each
\* of which has its arm of the loop, and a pass of the loop either returns
\* a frame or no-frame, or decreases the measure (so the loop ends); a
\* rejection leaves a byte in the buffer, and the search that follows
\* consumes a byte.
C6_DecodeTerminates ==
    /\ [][pc = "loop" =>
            state \in {"SearchForMagicByte", "ParseHeader", "ParsePayload", "CheckCRC"}]_vars
    /\ [][pc = "loop" =>
            \/ pc' = "idle" /\ ret' \in {"None", "Some"}
            \/ pc' = "loop" /\ Measure' < Measure]_vars
    /\ [][(pc = "loop" /\ state \in {"ParseHeader", "CheckCRC"}
            /\ state' = "SearchForMagicByte") =>
            (pc' = "loop" /\ src' = src /\ src # <<>>)]_vars
    /\ [][(pc = "loop" /\ state = "SearchForMagicByte" /\ src # <<>>) =>
            Len(src') = Len(src) - 1]_vars

\* C6's case: inside a call, the search resumes after the stray marker's
\* candidate was rejected, one byte (the marker) consumed.
C6_Witness ==
    /\ pc = "loop"
    /\ state = "SearchForMagicByte"
    /\ kind = "stray"
    /\ disciplined
    /\ nret = 0
    /\ fed = Len(Stream)
    /\ Len(src) = fed - 1

\* C7: a decode call on a decoder that returned a frame and was not reset
\* returns that frame again and leaves the buffer as it is; between calls
\* the returned frame stays until reset, which leaves the decoder in
\* SearchForMagicByte with zeroed storage.
C7_SameFrameUntilReset ==
    /\ [][(pc = "loop" /\ again) =>
            /\ pc' = "idle"
            /\ ret' = "Some"
            /\ state' = "CheckCRC"
            /\ message' = message
            /\ src' = src]_vars
    /\ [][(pc = "idle" /\ state = "CheckCRC") =>
            \/ state' = "CheckCRC" /\ message' = message /\ ret' = "Some"
            \/ /\ state' = "SearchForMagicByte"
               /\ message' = NewRaw
               /\ pc' = "idle"
               /\ src' = src]_vars

\* C7's case: decode has returned the same frame a second time, with bytes
\* of the stream still in the buffer.
C7_Witness ==
    /\ Returned
    /\ again
    /\ src # <<>>
    /\ message = Pad(frames[1])

(***************************************************************************)
(* Properties of the connection.                                           *)
(***************************************************************************)
\* C8: on one connection object the k-th send (from 0) stamps k mod 256
\* into the header and leaves the counter at k + 1 mod 256: from 0, with no
\* value skipped or repeated, wrapping from 255 to 0, and without a panic.
C8_ConsecutiveSequenceNumbers ==
    conn # NoConn =>
        /\ conn.sequence = nsent % 256
        /\ lastcall = "send" =>
            /\ nsent >= 1
            /\ stamped = (nsent - 1) % 256
            /\ result \in {"Ok", "Err"}

\* C8's case: the 257th send on a connection has stamped 0 after the 256th
\* stamped 255.
C8_Witness ==
    /\ lastcall = "send"
    /\ nsent = 257
    /\ stamped = 0
    /\ conn.sequence = 1

\* C9: after a reconnect that succeeded the transport is what the caller
\* created: an outgoing connection to the same address, or a listener on
\* the same address.
C9_ReconnectToOriginalTarget ==
    (lastcall = "reconnect" /\ result = "Ok") =>
        (conn.role = origin.role /\ conn.target = origin.target)

\* C10: a constructor leaves the counter at 0; send adds one modulo 256; a
\* reconnect that succeeds sets it to 0; every other call, and a reconnect
\* that fails, leaves it as it was.
C10_CounterChanges ==
    [][/\ (conn = NoConn /\ conn' # NoConn) => conn'.sequence = 0
       /\ conn # NoConn =>
            conn'.sequence =
                CASE lastcall' = "send" -> (conn.sequence + 1) % 256
                  [] lastcall' = "reconnect" /\ result' = "Ok" -> 0
                  [] OTHER -> conn.sequence]_vars

\* C10's case: a reconnect that succeeded on a connection whose counter was
\* not 0.
C10_Witness ==
    /\ lastcall = "reconnect"
    /\ result = "Ok"
    /\ before > 0
    /\ conn.sequence = 0

(***************************************************************************)
(* The decoder and the stream's positions.                                 *)
(***************************************************************************)
\* The stream index (from 1) of the last byte taken out of the buffer.  The
\* arms after the search take nothing out, so in ParseHeader, ParsePayload
\* and CheckCRC it is the index of the marker the search stopped at.
MarkerAt == fed - Len(src)

\* The buffer holds the appended bytes that were not taken out.
Unconsumed == Len(src) <= fed /\ src = SubSeq(Stream, MarkerAt + 1, fed)

\* C13: a candidate rejected inside decode, for its flags in ParseHeader or
\* for its checksum in CheckCRC: the step takes no byte out of the buffer,
\* zeroes the frame storage and continues the loop in SearchForMagicByte;
\* the last byte taken out is the candidate's marker, so the search goes on
\* at the byte after it, one byte at a time.
C13_RejectionKeepsBytes ==
    /\ [](Unconsumed)
    /\ [](state # "SearchForMagicByte" =>
            (MarkerAt >= 1 /\ Stream[MarkerAt] = MAV_STX_V2))
    /\ [][(pc = "loop" /\ state \in {"ParseHeader", "CheckCRC"}
            /\ state' = "SearchForMagicByte") =>
            /\ pc' = "loop"
            /\ src' = src
            /\ fed' = fed
            /\ message' = NewRaw]_vars
    /\ [][(pc = "loop" /\ state = "SearchForMagicByte" /\ src # <<>>) =>
            /\ src' = Tail(src)
            /\ (state' = "ParseHeader") = (Head(src) = MAV_STX_V2)]_vars

\* C13's case: the candidate at the stray marker followed by 0, 0 (an empty
\* payload, supported flags) was rejected for its checksum inside a call;
\* the marker alone is gone from the buffer.
C13_Witness ==
    /\ pc = "loop"
    /\ state = "SearchForMagicByte"
    /\ message = NewRaw
    /\ kind = "stray"
    /\ prefix = <<MAV_STX_V2, 0, 0>>
    /\ disciplined
    /\ nret = 0
    /\ MarkerAt = 1
    /\ Len(src) >= HEADER_SIZE + 2

\* The stream index of the first byte of the k-th valid frame.
FrameStart(k) == Len(prefix) + Len(Flatten(SubSeq(frames, 1, k - 1))) + 1

\* A candidate is being parsed: the search stopped at a marker and the
\* candidate was neither rejected nor returned yet.
Locked ==
    \/ state \in {"ParseHeader", "ParsePayload"}
    \/ state = "CheckCRC" /\ pc = "loop" /\ ~again

\* C14: the step of decode that returns a frame takes nothing out of the
\* buffer; and with frames only in the stream, decode and reset after each
\* returned frame, the marker that the search stops at after nret returned
\* frames is the first byte of the frame after them, so the bytes taken out
\* by that search are the emitted frame's bytes after its marker.
C14_NextSearchDiscardsEmittedFrame ==
    /\ [][(pc = "loop" /\ state = "CheckCRC" /\ pc' = "idle") =>
            (ret' = "Some" /\ src' = src)]_vars
    /\ []((kind = "clear" /\ disciplined /\ Locked) =>
            MarkerAt = FrameStart(nret + 1))

\* C19: a returned frame is a window of the stream: the last byte taken out
\* of the buffer is a marker of the stream, and the frame's bytes (marker,
\* header, the payload its own length byte announces, checksum, and the
\* signature when its signing flag is set) are the stream's bytes from that
\* marker on, all of them appended already.
C19_ReturnedFrameIsStreamWindow ==
    Returned =>
        LET n == 1 + HEADER_SIZE + message[2] + 2
                 + (IF message[3] % 2 = 1 THEN SIGNATURE_SIZE ELSE 0)
        IN  /\ MarkerAt >= 1
            /\ MarkerAt + n - 1 <= fed
            /\ Stream[MarkerAt] = MAV_STX_V2
            /\ message[2] = Stream[MarkerAt + 1]
            /\ SubSeq(message, 1, n) = SubSeq(Stream, MarkerAt, MarkerAt + n - 1)

\* C19's case: the signed frame returned after the candidate at a stray
\* marker was rejected for its checksum, its window starting behind the
\* stray bytes.
C19_Witness ==
    /\ Returned
    /\ kind = "stray"
    /\ prefix = <<MAV_STX_V2, 0, 0>>
    /\ frames[1] = FrameSigned
    /\ MarkerAt = Len(prefix) + 1
    /\ SubSeq(message, 1, Len(FrameSigned)) = FrameSigned

\* C16: a decode call made right after a call that returned no-frame, with
\* no append and no reset between them, returns no-frame in its first pass
\* and leaves the state, the frame storage and the buffer as they were; and
\* a pass that returns no-frame takes nothing out of the buffer and changes
\* neither the state nor the storage: it waits in ParseHeader or
\* ParsePayload, or it is in SearchForMagicByte with the buffer empty.
C16_NoFrameIsIdempotent ==
    /\ [][(pc = "loop" /\ quiet >= 1) =>
            /\ pc' = "idle"
            /\ ret' = "None"
            /\ state' = state
            /\ message' = message
            /\ src' = src]_vars
    /\ [][(pc = "loop" /\ pc' = "idle" /\ ret' = "None") =>
            /\ state' = state
            /\ message' = message
            /\ src' = src
            /\ state \in {"SearchForMagicByte", "ParseHeader", "ParsePayload"}
            /\ state = "SearchForMagicByte" => src = <<>>]_vars

\* C16's case: decode has returned no-frame a second time in a row while
\* it waits for a payload, the header's bytes still in the buffer.
C16_Witness ==
    /\ pc = "idle"
    /\ ret = "None"
    /\ quiet = 2
    /\ state = "ParsePayload"
    /\ Len(src) >= HEADER_SIZE
    /\ SubSeq(message, 2, 1 + HEADER_SIZE) = SubSeq(src, 1, HEADER_SIZE)

(***************************************************************************)
(* decode as a function of the codec and the buffer, for a buffer filled   *)
(* at once.                                                                *)
(***************************************************************************)
\* MAVLinkV2Codec::decode on c = [state, message, src]: what the call
\* leaves and what it returns (ret).  One unfolding is one pass of a loop
\* of the code.
RECURSIVE decode(_)
decode(c) ==
    CASE c.state = "SearchForMagicByte" ->
            IF c.src = <<>>
            THEN [state |-> c.state, message |-> c.message, src |-> c.src, ret |-> "None"]
            ELSE IF Head(c.src) = MAV_STX_V2
            THEN decode([state |-> "ParseHeader",
                         message |-> [c.message EXCEPT ![1] = MAV_STX_V2],
                         src |-> Tail(c.src)])
            ELSE decode([state |-> c.state, message |-> c.message, src |-> Tail(c.src)])
      [] c.state = "ParseHeader" ->
            IF Len(c.src) >= HEADER_SIZE
            THEN LET m == CopyInto(c.message, 1, SubSeq(c.src, 1, HEADER_SIZE))
                 IN  IF BitAnd(incompatibility_flags(m),
                               BitNot8(MAVLINK_SUPPORTED_IFLAGS)) > 0
                     THEN decode([state |-> "SearchForMagicByte", message |-> NewRaw,
                                  src |-> c.src])
                     ELSE decode([state |-> "ParsePayload", message |-> m, src |-> c.src])
            ELSE [state |-> c.state, message |-> c.message, src |-> c.src, ret |-> "None"]
      [] c.state = "ParsePayload" ->
            LET full_payload_and_checksum_and_sign_len ==
                    payload_length(c.message) + 2 + signature_lenght(c.message)
                offset == HEADER_SIZE
            IN  IF Len(c.src) >= full_payload_and_checksum_and_sign_len + offset
                THEN decode([state |-> "CheckCRC",
                             message |-> CopyInto(c.message, 1 + HEADER_SIZE,
                                 SubSeq(c.src, offset + 1,
                                        full_payload_and_checksum_and_sign_len + offset)),
                             src |-> c.src])
                ELSE [state |-> c.state, message |-> c.message, src |-> c.src,
                      ret |-> "None"]
      [] c.state = "CheckCRC" ->
            IF ~has_valid_crc(c.message)
            THEN decode([state |-> "SearchForMagicByte", message |-> NewRaw, src |-> c.src])
            ELSE [state |-> c.state, message |-> c.message, src |-> c.src, ret |-> "Some"]

\* The caller's loop of the tests on a buffer that holds everything: decode,
\* and after each returned frame reset and decode again, until no-frame.
\* out collects the returned frames.
RECURSIVE decode_all(_, _)
decode_all(c, out) ==
    LET r == decode(c)
    IN  IF r.ret = "Some"
        THEN decode_all([state |-> "SearchForMagicByte", message |-> NewRaw, src |-> r.src],
                        Append(out, r.message))
        ELSE [state |-> r.state, message |-> r.message, src |-> r.src, out |-> out]

\* A new codec driven over a buffer that was filled with bytes at once.
WholeAtOnce(bytes) ==
    decode_all([state |-> "SearchForMagicByte", message |-> NewRaw, src |-> bytes], <<>>)

\* C15: a stream fed in any chunks, with decode calls at any points between
\* the appends and reset after each returned frame: once decode has
\* returned no-frame on what was appended, the frames returned, the decoder
\* (state and storage) and the buffer are those of a new decoder given the
\* same bytes at once; and the k-th frame returned is the k-th frame that
\* the whole stream given at once returns.
C15_ChunkingDoesNotMatter ==
    /\ (disciplined /\ Settled /\ ret = "None") =>
            LET r == WholeAtOnce(SubSeq(Stream, 1, fed))
            IN  /\ state = r.state
                /\ message = r.message
                /\ src = r.src
                /\ nret = Len(r.out)
    /\ (disciplined /\ Returned) =>
            LET r == WholeAtOnce(Stream)
            IN  /\ nret <= Len(r.out)
                /\ message = r.out[nret]

\* C15's case: the stream was fed in more than one chunk with decode calls
\* between the appends: one frame was returned, and decode waits for the
\* payload of a second candidate while bytes of the stream are still to
\* come.
C15_Witness ==
    /\ disciplined
    /\ Settled
    /\ ret = "None"
    /\ nret = 1
    /\ state = "ParsePayload"
    /\ fed < Len(Stream)
    /\ WholeAtOnce(SubSeq(Stream, 1, fed)).state = "ParsePayload"

(***************************************************************************)
(* The decoder driven with a long stream in large chunks.                  *)
(***************************************************************************)
\* How many bytes of value 0 follow the false header of the long stream.
BulkJunk == 264

\* The size of the chunks the long stream is appended in.
BulkChunk == 93

\* A stray marker and nine bytes that read as the header of a signed frame
\* with a payload of 255 bytes, the longest frame there is, then zeros.
BulkPrefix ==
    <<MAV_STX_V2, MAX_PAYLOAD, MAVLINK_IFLAG_SIGNED, 0, 0, 0, 0, 0, 0, 0>>
    \o [i \in 1..BulkJunk |-> 0]

\* MAVLinkV2Codec::new(), an empty buffer, and the long stream to feed: the
\* prefix and one valid frame.
InitBulk ==
    /\ state = "SearchForMagicByte"
    /\ message = NewRaw
    /\ src = <<>>
    /\ pc = "idle"
    /\ ret = "NoCall"
    /\ kind = "bulk"
    /\ prefix = BulkPrefix
    /\ frames = <<FramePlain>>
    /\ fed = 0
    /\ fresh = FALSE
    /\ again = FALSE
    /\ nret = 0
    /\ disciplined = TRUE
    /\ quiet = 0
    /\ conn = NoConn
    /\ origin = NoOrigin
    /\ lastcall = "none"
    /\ result = "Ok"
    /\ stamped = 0
    /\ nsent = 0
    /\ before = 0
    /\ writes = 0
    /\ got = "V2"
    /\ lastset = "V2"
    /\ tpc = [t \in Threads |-> "idle"]
    /\ wlock = NoThread
    /\ rlock = NoThread
    /\ hdr = [t \in Threads |-> 0]
    /\ wire = <<>>
    /\ stamps = <<>>
    /\ ncalls = 0
    /\ during = [t \in Threads |-> NoThread]
    /\ overlap = FALSE

\* The caller appends the next chunk of the stream, or all that is left.
put_bulk ==
    /\ pc = "idle"
    /\ UNCHANGED <<connVars, threadVars>>
    /\ \E k \in {BulkChunk, Len(Stream) - fed} :
        /\ k >= 1
        /\ fed + k <= Len(Stream)
        /\ src' = src \o SubSeq(Stream, fed + 1, fed + k)
        /\ fed' = fed + k
    /\ fresh' = FALSE
    /\ quiet' = 0
    /\ UNCHANGED <<state, message, pc, ret, kind, prefix, frames, again, nret, disciplined>>

NextBulk ==
    \/ put_bulk
    \/ DecodeCall
    \/ SearchForMagicByte
    \/ ParseHeader
    \/ ParsePayload
    \/ CheckCRC
    \/ Reset

SpecBulk == InitBulk /\ [][NextBulk]_vars

\* C17: when a decode call has returned no-frame, fewer bytes than the
\* largest frame (280) are left in the buffer, however many were appended
\* before the call; the frame storage keeps its 280 bytes, and the bytes
\* that ParsePayload is about to copy behind the marker and the header end
\* inside it.
C17_BoundedBuffering ==
    /\ (Settled /\ ret = "None") => Len(src) < RAW_SIZE
    /\ DOMAIN message = 1..RAW_SIZE
    /\ 1 + HEADER_SIZE <= RAW_SIZE
    /\ state \in {"ParsePayload", "CheckCRC"} =>
            1 + HEADER_SIZE + payload_length(message) + 2 + signature_lenght(message)
                <= RAW_SIZE

\* C17's case: decode has returned no-frame while it waits for a signed
\* payload of 255 bytes, one byte short of it: 278 bytes are in the buffer.
C17_Witness ==
    /\ Settled
    /\ ret = "None"
    /\ state = "ParsePayload"
    /\ payload_length(message) = MAX_PAYLOAD
    /\ signature_lenght(message) = SIGNATURE_SIZE
    /\ Len(src) = RAW_SIZE - 2

(***************************************************************************)
(* Further properties of the connection.                                   *)
(***************************************************************************)
\* C18: a send whose write fails returns the error after that one write (a
\* send call makes one write to the transport, failed or not), and has
\* advanced the counter by one all the same; every send stamps the
\* counter's value, so the send after a failed one stamps the next value.
C18_FailedSendAdvancesCounter ==
    /\ [](conn # NoConn => writes = nsent)
    /\ []((lastcall = "send" /\ result = "Err") =>
            /\ stamped = before
            /\ conn.sequence = (stamped + 1) % 256)
    /\ [][lastcall' = "send" =>
            /\ stamped' = conn.sequence
            /\ writes' = writes + 1
            /\ conn'.sequence = (conn.sequence + 1) % 256]_vars

\* C18's case: a write failed on a transport that was not shut down, in
\* the send that stamped 255: the counter has wrapped to 0.
C18_Witness ==
    /\ lastcall = "send"
    /\ result = "Err"
    /\ conn.up
    /\ stamped = 255
    /\ conn.sequence = 0
    /\ writes = 256

\* C20: a reconnect that succeeded leaves the protocol version V2 and the
\* counter 0; the protocol version is the one last given to
\* set_protocol_version since the connection object was built (by a
\* constructor or by a reconnect that succeeded), V2 if none, and it is
\* what get_protocol_version returns.
C20_ReconnectResetsVersion ==
    /\ (lastcall = "reconnect" /\ result = "Ok") =>
            (conn.protocol_version = "V2" /\ conn.sequence = 0)
    /\ conn # NoConn => conn.protocol_version = lastset
    /\ (lastcall = "get_protocol_version") => got = lastset

\* C20's case: get_protocol_version returned V1, and the reconnect after it
\* succeeded: the version is V2 again.
C20_Witness ==
    /\ lastcall = "reconnect"
    /\ result = "Ok"
    /\ got = "V1"
    /\ conn.protocol_version = "V2"

(***************************************************************************)
(* One TcpConnection shared by threads that call send and recv (both take  *)
(* &self; shutdown, reconnect and set_protocol_version take &mut self and  *)
(* cannot run beside them).                                                *)
(***************************************************************************)
\* How many calls the threads make in all, at most.
MaxCalls == 4

\* The counter of the shared connection when the threads start: two sends
\* before it wraps.
StartSequence == 254

\* The positions inside send and inside recv.
SendPcs == {"send_lock", "send_stamp", "send_write", "send_rest", "send_done", "send_failed"}
RecvPcs == {"recv_lock", "recv_read"}

\* A connection built by tcpout on which StartSequence sends were made by
\* one caller, now shared by idle threads.
InitThreads ==
    /\ conn = [tcpout(AddrShort, TRUE).conn EXCEPT !.sequence = StartSequence]
    /\ origin = [role |-> "out", target |-> AddrShort]
    /\ lastcall = "send"
    /\ result = "Ok"
    /\ stamped = StartSequence - 1
    /\ nsent = StartSequence
    /\ before = StartSequence - 1
    /\ writes = StartSequence
    /\ got = "V2"
    /\ lastset = "V2"
    /\ tpc = [t \in Threads |-> "idle"]
    /\ wlock = NoThread
    /\ rlock = NoThread
    /\ hdr = [t \in Threads |-> 0]
    /\ wire = <<>>
    /\ stamps = <<>>
    /\ ncalls = 0
    /\ during = [t \in Threads |-> NoThread]
    /\ overlap = FALSE
    /\ state = "SearchForMagicByte"
    /\ message = NewRaw
    /\ src = <<>>
    /\ pc = "idle"
    /\ ret = "NoCall"
    /\ kind = "clear"
    /\ prefix = <<>>
    /\ frames = <<>>
    /\ fed = 0
    /\ fresh = FALSE
    /\ again = FALSE
    /\ nret = 0
    /\ disciplined = TRUE
    /\ quiet = 0

\* A thread calls send: it is about to lock self.writer.
SendCall ==
    \E t \in Threads :
        /\ tpc[t] = "idle"
        /\ ncalls < MaxCalls
        /\ tpc' = [tpc EXCEPT ![t] = "send_lock"]
        /\ ncalls' = ncalls + 1
        /\ during' = [during EXCEPT ![t] =
                        IF rlock # NoThread /\ tpc[rlock] = "recv_read"
                        THEN rlock ELSE NoThread]
        /\ UNCHANGED <<conn, wlock, rlock, hdr, wire, stamps, overlap>>
        /\ UNCHANGED <<decoderVars, callVars>>

\* send that goes on only when self.reader is free as well, as it would
\* with one lock guarding both halves of the connection.
SendLock_ReaderLock ==
    \E t \in Threads :
        /\ tpc[t] = "send_lock"
        /\ wlock = NoThread
        /\ rlock = NoThread
        /\ wlock' = t
        /\ tpc' = [tpc EXCEPT ![t] = "send_stamp"]
        /\ UNCHANGED <<conn, rlock, hdr, wire, stamps, ncalls, during, overlap>>
        /\ UNCHANGED <<decoderVars, callVars>>

\* self.writer.lock().unwrap(): the thread goes on when the lock is free.
SendLock ==
    \E t \in Threads :
        /\ tpc[t] = "send_lock"
        /\ wlock = NoThread
        /\ wlock' = t
        /\ tpc' = [tpc EXCEPT ![t] = "send_stamp"]
        /\ UNCHANGED <<conn, rlock, hdr, wire, stamps, ncalls, during, overlap>>
        /\ UNCHANGED <<decoderVars, callVars>>

\* send that holds the lock for the counter only and writes the frame
\* after it has released it.
SendStamp_Unlock ==
    \E t \in Threads :
        /\ tpc[t] = "send_stamp"
        /\ hdr' = [hdr EXCEPT ![t] = conn.sequence]
        /\ stamps' = Append(stamps, conn.sequence)
        /\ conn' = [conn EXCEPT !.sequence = (conn.sequence + 1) % 256]
        /\ wlock' = NoThread
        /\ tpc' = [tpc EXCEPT ![t] = "send_write"]
        /\ UNCHANGED <<rlock, wire, ncalls, during, overlap>>
        /\ UNCHANGED <<decoderVars, callVars>>

\* The header is built with lock.sequence, and lock.sequence is incremented.
SendStamp ==
    \E t \in Threads :
        /\ tpc[t] = "send_stamp"
        /\ hdr' = [hdr EXCEPT ![t] = conn.sequence]
        /\ stamps' = Append(stamps, conn.sequence)
        /\ conn' = [conn EXCEPT !.sequence = (conn.sequence + 1) % 256]
        /\ tpc' = [tpc EXCEPT ![t] = "send_write"]
        /\ UNCHANGED <<wlock, rlock, wire, ncalls, during, overlap>>
        /\ UNCHANGED <<decoderVars, callVars>>

\* write_versioned_msg(&mut lock.socket, ...): the socket takes the first
\* bytes of the frame, or the write fails.
SendWrite ==
    \E t \in Threads :
        /\ tpc[t] = "send_write"
        /\ \/ /\ wire' = Append(wire, [seq |-> hdr[t], piece |-> 1])
              /\ tpc' = [tpc EXCEPT ![t] = "send_rest"]
           \/ /\ wire' = wire
              /\ tpc' = [tpc EXCEPT ![t] = "send_failed"]
        /\ UNCHANGED <<conn, wlock, rlock, hdr, stamps, ncalls, during, overlap>>
        /\ UNCHANGED <<decoderVars, callVars>>

\* The socket takes the rest of the frame, or the write fails.
SendWriteRest ==
    \E t \in Threads :
        /\ tpc[t] = "send_rest"
        /\ \/ /\ wire' = Append(wire, [seq |-> hdr[t], piece |-> 2])
              /\ tpc' = [tpc EXCEPT ![t] = "send_done"]
           \/ /\ wire' = wire
              /\ tpc' = [tpc EXCEPT ![t] = "send_failed"]
        /\ UNCHANGED <<conn, wlock, rlock, hdr, stamps, ncalls, during, overlap>>
        /\ UNCHANGED <<decoderVars, callVars>>

\* send returns what the write returned; the guard is dropped, which
\* releases the lock if this thread holds it.
SendReturn ==
    \E t \in Threads :
        /\ tpc[t] \in {"send_done", "send_failed"}
        /\ wlock' = IF wlock = t THEN NoThread ELSE wlock
        /\ overlap' = (overlap \/ (tpc[t] = "send_done" /\ during[t] # NoThread))
        /\ during' = [during EXCEPT ![t] = NoThread]
        /\ tpc' = [tpc EXCEPT ![t] = "idle"]
        /\ UNCHANGED <<conn, rlock, hdr, wire, stamps, ncalls>>
        /\ UNCHANGED <<decoderVars, callVars>>

\* A thread calls recv: it is about to lock self.reader.
RecvCall ==
    \E t \in Threads :
        /\ tpc[t] = "idle"
        /\ ncalls < MaxCalls
        /\ tpc' = [tpc EXCEPT ![t] = "recv_lock"]
        /\ ncalls' = ncalls + 1
        /\ UNCHANGED <<conn, wlock, rlock, hdr, wire, stamps, during, overlap>>
        /\ UNCHANGED <<decoderVars, callVars>>

\* self.reader.lock().expect(..): the thread goes on when the lock is free,
\* and is then inside read_versioned_msg.
RecvLock ==
    \E t \in Threads :
        /\ tpc[t] = "recv_lock"
        /\ rlock = NoThread
        /\ rlock' = t
        /\ tpc' = [tpc EXCEPT ![t] = "recv_read"]
        /\ UNCHANGED <<conn, wlock, hdr, wire, stamps, ncalls, during, overlap>>
        /\ UNCHANGED <<decoderVars, callVars>>

\* read_versioned_msg returns a message or an error, whenever the peer's
\* bytes or the read timeout let it; recv returns and the guard is dropped.
RecvReturn ==
    \E t \in Threads :
        /\ tpc[t] = "recv_read"
        /\ rlock' = NoThread
        /\ tpc' = [tpc EXCEPT ![t] = "idle"]
        /\ during' = [u \in Threads |-> IF during[u] = t THEN NoThread ELSE during[u]]
        /\ UNCHANGED <<conn, wlock, hdr, wire, stamps, ncalls, overlap>>
        /\ UNCHANGED <<decoderVars, callVars>>

\* The passes that a thread inside send makes.
SendSteps == SendLock \/ SendStamp \/ SendWrite \/ SendWriteRest \/ SendReturn

NextThreads ==
    \/ SendCall
    \/ SendLock
    \/ SendStamp
    \/ SendWrite
    \/ SendWriteRest
    \/ SendReturn
    \/ RecvCall
    \/ RecvLock
    \/ RecvReturn

\* A thread that can go on inside send does go on (the scheduler runs it
\* and the socket takes or refuses its bytes); nothing is assumed of recv,
\* which may stay in its read for ever.
SpecThreads == InitThreads /\ [][NextThreads]_vars /\ WF_vars(SendSteps)

(***************************************************************************)
(* Concurrent sends                                                        *)
(***************************************************************************)
\* The positions of send at which the thread holds the writer lock.
UnderWriterLock == {"send_stamp", "send_write", "send_rest", "send_done", "send_failed"}

\* How far a sequence number is from the counter the threads started with.
SinceStart(s) == (s + 256 - StartSequence) % 256

\* The places of the wire where a frame begins.
FrameHeads == {j \in 1..Len(wire) : wire[j].piece = 1}

\* C11: when threads send concurrently on one connection, a thread reads
\* the counter, increments it and writes its frame only while it holds the
\* writer lock, which one thread holds at a time; so the bytes of two
\* frames never interleave on the transport (the rest of a frame comes
\* right after its own beginning), every send is stamped with its own
\* sequence number, consecutive modulo 256, and the frames are on the wire
\* in the order of their sequence numbers.
C11_ConcurrentSendsAreSerialized ==
    /\ \A t \in Threads : tpc[t] \in UnderWriterLock => wlock = t
    /\ \A i \in 1..Len(stamps) : stamps[i] = (StartSequence + i - 1) % 256
    /\ \A i, j \in 1..Len(stamps) : i # j => stamps[i] # stamps[j]
    /\ conn.sequence = (StartSequence + Len(stamps)) % 256
    /\ \A j \in 1..Len(wire) :
           wire[j].piece = 2 =>
               /\ j > 1
               /\ wire[j - 1] = [seq |-> wire[j].seq, piece |-> 1]
    /\ \A i, j \in FrameHeads :
           i < j => SinceStart(wire[i].seq) < SinceStart(wire[j].seq)
    /\ \A j \in 1..Len(wire) : SinceStart(wire[j].seq) < Len(stamps)

\* Two whole frames are on the wire, the counter has wrapped, and a thread
\* waits for the writer lock that another thread holds while it writes.
C11_Witness ==
    /\ Len(stamps) >= 3
    /\ \E j \in 1..Len(wire) : wire[j] = [seq |-> 255, piece |-> 2]
    /\ \E j \in 1..Len(wire) : wire[j] = [seq |-> 254, piece |-> 2]
    /\ \E t, u \in Threads :
           /\ tpc[t] = "send_lock"
           /\ wlock = u
           /\ tpc[u] = "send_rest"
           /\ hdr[u] = 0

(***************************************************************************)
(* recv beside send                                                        *)
(***************************************************************************)
\* The reader lock is held by a thread inside recv's read and by no
\* other, the writer lock by a thread inside send past its lock and by no
\* other: no thread waits for one lock while it holds the other.
LockSeparation ==
    /\ \A t \in Threads : tpc[t] = "recv_read" <=> rlock = t
    /\ \A t \in Threads : tpc[t] \in UnderWriterLock <=> wlock = t
    /\ \A t \in Threads : tpc[t] = "send_lock" => rlock # t
    /\ \A t \in Threads : tpc[t] = "recv_lock" => wlock # t

\* C12: recv takes the reader lock only and send the writer lock only, and
\* neither waits for a lock while holding the other; so a send that has
\* started returns whatever the threads inside recv do, even if a recv
\* never returns, and no interleaving of the calls deadlocks.
C12_SendNeverWaitsForRecv ==
    /\ []LockSeparation
    /\ \A t \in Threads : (tpc[t] \in SendPcs) ~> (tpc[t] = "idle")

\* A send started while another thread was inside recv's read, holding the
\* reader lock, and returned Ok while that thread was still there.
C12_Witness ==
    /\ overlap
    /\ \E t \in Threads : tpc[t] = "recv_read" /\ rlock = t
    /\ Len(wire) >= 2

(***************************************************************************)
(* The frame storage between candidates.                                   *)
(***************************************************************************)
\* The storage holds the first n bytes of the stream from the marker the
\* search stopped at, and zero in every byte after them.
StorageIsWindow(n) ==
    /\ MarkerAt >= 1
    /\ MarkerAt + n - 1 <= fed
    /\ message = Pad(SubSeq(Stream, MarkerAt, MarkerAt + n - 1))

\* C21: in SearchForMagicByte the frame storage is all zeros, between calls
\* and inside them, because every step into that state is new's or reset's
\* (state and storage are set together); so a candidate is built on zeros:
\* the storage holds the marker alone in ParseHeader, marker and header in
\* ParsePayload, and in CheckCRC and in every returned frame the candidate's
\* own bytes of the stream followed by zeros up to the storage's end, with
\* no byte of a candidate rejected or returned before.
C21_StorageZeroedBetweenCandidates ==
    /\ [](state = "SearchForMagicByte" => message = NewRaw)
    /\ [][(state' = "SearchForMagicByte" /\ state # "SearchForMagicByte")
            => message' = NewRaw]_vars
    /\ [](state = "ParseHeader" => message = Pad(<<MAV_STX_V2>>))
    /\ [](state = "ParsePayload" => StorageIsWindow(1 + HEADER_SIZE))
    /\ [](state = "CheckCRC" => StorageIsWindow(FrameLen(message)))
    /\ [](Returned =>
            /\ \A i \in (FrameLen(message) + 1)..RAW_SIZE : message[i] = 0
            /\ StorageIsWindow(FrameLen(message)))

\* C21's case: the candidate at a stray marker, which announced a payload
\* of 10 bytes and had 22 bytes copied into the storage, was rejected for
\* its checksum; the frame of 24 bytes behind it was returned; and after
\* reset() the frame of 12 bytes found next is returned, with zeros after
\* its 12 bytes.
C21_Witness ==
    /\ Returned
    /\ kind = "stray"
    /\ prefix = <<MAV_STX_V2, 10, 0>>
    /\ frames[1] = FrameNested
    /\ disciplined
    /\ nret = 2
    /\ FrameLen(message) = 12
    /\ message = Pad(FramePlain)

====
